---- MODULE Spec2Model ----
(***************************************************************************)
(* Model of the forensicstore storage engine: the record index of          *)
(* pyjsonlite/jsonlite.py (one SQL table per record type, columns added on *)
(* demand), the content store (store_file and HashedFile) and the payload  *)
(* writers of pyforensicstore/forensicstore.py.                            *)
(*                                                                         *)
(* Text is a sequence of tokens (a string over a small alphabet): string   *)
(* concatenation is \o, so that 'type + "--" + uuid', partition("--"),     *)
(* splitext and '"%s_%d%s" % (base, i, ext)' are computed as the code      *)
(* computes them.  A nested record is the function from the paths of its   *)
(* leaves to the leaves; a list index is the path segment "#i".            *)
(***************************************************************************)
EXTENDS Integers, Sequences, FiniteSets, TLC

VARIABLES
    db,         \* the index database: the columns and the rows of each table
    tables,     \* JSONLite._tables, the in-memory catalog
    options,    \* the strict option: what strict() is, and the row of _options
    schemas,    \* the record types that have a schema in the _schemas table
    files,      \* the payload files under the root: path -> bytes
    writers,    \* the open HashedFile writers, by path
    handed,     \* the final paths store_file has returned so far
    last,       \* the last call and its result
    handle,     \* the JSONLite object: open or closed, read_only, remote_is_local, new,
                \* its scratch directory and its connection
    disk,       \* the index file item.db under the container root, as saved
    metadata,   \* ForensicStore.metadata: the envelope last imported
    pending,    \* the sequence select or all returned that is not consumed yet
    hashseed    \* the order in which the sets of this interpreter iterate

vars == <<hashseed, db, tables, options, schemas, files, writers, handed, last, handle, disk, metadata, pending>>

-----------------------------------------------------------------------------
(* Bounds of the model *)

\* rows the index holds at most (all tables together)
MaxRows == 2
\* payload files under the root at most
MaxFiles == 3
\* bytes written to one payload file at most
MaxFileLen == 2
MaxExports == 2

-----------------------------------------------------------------------------
(* Values *)

Num(n) == [k |-> "int", i |-> n, s |-> <<>>]
Txt(t) == [k |-> "text", i |-> 0, s |-> t]
Null == [k |-> "null", i |-> 0, s |-> <<>>]
EList == [k |-> "elist", i |-> 0, s |-> <<>>]

\* the decimal digits: "%d" % n and int(text) for 0 <= n <= 9
Digits == <<"0", "1", "2", "3", "4", "5", "6", "7", "8", "9">>

Dec(n) == <<Digits[n + 1]>>

IsIntLit(t) == Len(t) = 1 /\ \E n \in 1..Len(Digits) : Digits[n] = t[1]

ParseInt(t) == (CHOOSE n \in 1..Len(Digits) : Digits[n] = t[1]) - 1

\* the list-index path segments and the flat-key segment each is written as
IdxSeg == <<"#0", "#1", "#2">>

SegStr(seg) ==
    IF \E n \in 1..Len(IdxSeg) : IdxSeg[n] = seg
    THEN Digits[CHOOSE n \in 1..Len(IdxSeg) : IdxSeg[n] = seg]
    ELSE seg

DISCRIMINATOR == <<"type">>
UID == <<"uid">>

\* str.partition("--"): the text before the first "--" and the text after it
SepAt(t) == IF \E n \in 1..Len(t) : t[n] = "--"
            THEN CHOOSE n \in 1..Len(t) : t[n] = "--" /\ \A m \in 1..(n - 1) : t[m] # "--"
            ELSE Len(t) + 1

PartitionHead(t) == SubSeq(t, 1, SepAt(t) - 1)

PartitionTail(t) == SubSeq(t, SepAt(t) + 1, Len(t))

Restrict(f, S) == [x \in S |-> f[x]]

TopKeys(item) == {p[1] : p \in DOMAIN item}

-----------------------------------------------------------------------------
(* Bootstrap schemas *)

\* the schema of type "file": the properties it allows and the kind of each
FileSchema ==
    (<<"type">> :> "text") @@ (<<"uid">> :> "text") @@ (<<"name">> :> "text")
    @@ (<<"size">> :> "int") @@ (<<"export_path">> :> "text")
    @@ (<<"hashes", "MD5">> :> "text") @@ (<<"hashes", "SHA-1">> :> "text")

\* _schema(name): the registered schema, or the empty schema {} (accepts all)
HasSchema(type) == type \in schemas

\* validate_item_schema: the list of errors (empty, or one entry)
ValidateItemSchema(item) ==
    IF HasSchema(item[DISCRIMINATOR].s)
       /\ \E p \in DOMAIN item : p \notin DOMAIN FileSchema \/ item[p].k # FileSchema[p]
    THEN <<"Item could not be validated">>
    ELSE <<>>

-----------------------------------------------------------------------------
(* Flattener *)

FlatKey(p) == [j \in 1..Len(p) |-> SegStr(p[j])]

\* _flatten_item: drop top-level None and [], flatten, keep the non-list columns
FlattenItem(item0) ==
    LET item == Restrict(item0, {p \in DOMAIN item0 :
                    ~(Len(p) = 1 /\ item0[p].k \in {"null", "elist"})})
        flat == [fk \in {FlatKey(p) : p \in DOMAIN item} |->
                    item[CHOOSE p \in DOMAIN item : FlatKey(p) = fk]]
    IN  [column_names |-> {fk \in DOMAIN flat : flat[fk].k # "elist"},
         flat_item |-> flat,
         item |-> item]

\* the keys of the mapping the flat keys below `prefix` are nested into
ChildKeys(row, prefix) ==
    {g[Len(prefix) + 1] : g \in {h \in DOMAIN row :
        Len(h) > Len(prefix) /\ SubSeq(h, 1, Len(prefix)) = prefix}}

\* unflatten_list: a mapping whose keys are 0..n-1 is replaced by a list
IsListNode(row, prefix) ==
    LET ks == ChildKeys(row, prefix)
    IN  /\ ks # {}
        /\ Cardinality(ks) <= Len(IdxSeg)
        /\ ks = {Digits[n] : n \in 1..Cardinality(ks)}

UnflattenKey(row, fk) ==
    [j \in 1..Len(fk) |->
        IF IsListNode(row, SubSeq(fk, 1, j - 1))
        THEN IdxSeg[CHOOSE n \in 1..Len(IdxSeg) : Digits[n] = fk[j]]
        ELSE fk[j]]

\* _row_to_item: the non-NULL columns of the row, unflattened
RowToItem(row) ==
    [p \in {UnflattenKey(row, fk) : fk \in DOMAIN row} |->
        row[CHOOSE fk \in DOMAIN row : UnflattenKey(row, fk) = p]]

-----------------------------------------------------------------------------
(* The index: db is the SQLite database, tables the in-memory catalog *)

GetSqlDataType(value) == IF value.k = "int" THEN "INTEGER" ELSE "TEXT"

\* SQLite's column affinity, applied to a value bound into a column
Affinity(decl, v) ==
    IF decl = "INTEGER" /\ v.k = "text" /\ IsIntLit(v.s) THEN Num(ParseInt(v.s))
    ELSE IF decl = "TEXT" /\ v.k = "int" THEN Txt(Dec(v.i))
    ELSE v

NRows(d) ==
    LET RECURSIVE Sum(_)
        Sum(S) == IF S = {} THEN 0
                  ELSE LET t == CHOOSE t \in S : TRUE
                       IN  Cardinality(d.rows[t]) + Sum(S \ {t})
    IN  Sum(DOMAIN d.rows)

\* a state of the index: the database and the catalog
St(d, t) == [db |-> d, tables |-> t]

\* SQLite folds the case of a name it compares
Lower(tok) == IF tok = "A" THEN "a" ELSE IF tok = "B" THEN "b" ELSE tok

\* a column name as SQLite compares it
FoldKey(fk) == [j \in 1..Len(fk) |-> Lower(fk[j])]

\* the table has a column that a statement can call `name`
HasColumn(cols, name) == \E c \in DOMAIN cols : FoldKey(c) = FoldKey(name)

\* the column of the table that a statement means by `name`
Column(cols, name) ==
    IF name \in DOMAIN cols THEN name
    ELSE CHOOSE c \in DOMAIN cols : FoldKey(c) = FoldKey(name)

\* a table name SQLite keeps for itself
Reserved(t) == Len(t) >= 2 /\ t[1] = "sqlite" /\ t[2] = "_"

RECURSIVE Enumerate(_)
Enumerate(S) ==
    IF S = {} THEN <<>>
    ELSE LET x == CHOOSE x \in S : TRUE IN <<x>> \o Enumerate(S \ {x})

Reverse(s) == [j \in 1..Len(s) |-> s[Len(s) + 1 - j]]

\* the order in which a for loop visits a set: Python does not fix it; one order
\* or its reverse, which are all the orders of a set of two
IterationOrder(S) == IF hashseed THEN Reverse(Enumerate(S)) ELSE Enumerate(S)

\* _create_table: [ok, err, st]; the catalog gets the table with uid, the
\* discriminator and the item's columns, then CREATE TABLE IF NOT EXISTS runs:
\* it does nothing when the table exists and raises OperationalError when the
\* name is reserved or two of the columns have the same name but for case
CreateTable(st, column_names, flat_item) ==
    LET t == flat_item[DISCRIMINATOR].s
        cols == [c \in column_names \cup {UID, DISCRIMINATOR} |->
                    IF c \in {UID, DISCRIMINATOR} THEN "TEXT"
                    ELSE GetSqlDataType(flat_item[c])]
        catalog == (t :> cols) @@ st.tables
    IN  IF t \in DOMAIN st.db.cols
        THEN [ok |-> TRUE, err |-> "", st |-> St(st.db, catalog)]
        ELSE IF Reserved(t)
                \/ \E c \in DOMAIN cols : \E d \in DOMAIN cols :
                        c # d /\ FoldKey(c) = FoldKey(d)
        THEN [ok |-> FALSE, err |-> "OperationalError", st |-> St(st.db, catalog)]
        ELSE [ok |-> TRUE, err |-> "",
              st |-> St([cols |-> (t :> cols) @@ st.db.cols,
                         rows |-> (t :> {}) @@ st.db.rows],
                        catalog)]

\* _add_missing_columns: [ok, err, st]; for each new column the catalog gets
\* it, then ALTER TABLE ADD COLUMN runs: it raises OperationalError when the
\* index has no such table or the table has a column of that name, and the loop
\* ends there
AddMissingColumns(st, t, columns, new_columns) ==
    LET RECURSIVE Add(_, _)
        Add(s, order) ==
            IF order = <<>> THEN [ok |-> TRUE, err |-> "", st |-> s]
            ELSE LET c == Head(order)
                     add == c :> GetSqlDataType(columns[c])
                     catalog == [s.tables EXCEPT ![t] = add @@ @]
                 IN  IF t \notin DOMAIN s.db.cols \/ HasColumn(s.db.cols[t], c)
                     THEN [ok |-> FALSE, err |-> "OperationalError",
                           st |-> St(s.db, catalog)]
                     ELSE Add(St([s.db EXCEPT !.cols[t] = add @@ @], catalog),
                              Tail(order))
    IN  Add(st, IterationOrder(new_columns))

\* an _ensure_table that validates after it has changed the index
EnsureTableThenValidate(st, column_names, flat_item, item) ==
    LET t == item[DISCRIMINATOR].s
        r == IF t \notin DOMAIN st.tables
             THEN CreateTable(st, column_names, flat_item)
             ELSE AddMissingColumns(st, t, flat_item,
                                    DOMAIN flat_item \ DOMAIN st.tables[t])
    IN  IF ~r.ok THEN r
        ELSE IF ValidateItemSchema(item) # <<>>
        THEN [ok |-> FALSE, err |-> "TypeError", st |-> r.st]
        ELSE r

\* _ensure_table: [ok, err, st]; raises TypeError when the table or a column is
\* new and the item fails its schema
EnsureTable(st, column_names, flat_item, item) ==
    LET t == item[DISCRIMINATOR].s
    IN  IF t \notin DOMAIN st.tables
        THEN IF ValidateItemSchema(item) # <<>>
             THEN [ok |-> FALSE, err |-> "TypeError", st |-> st]
             ELSE CreateTable(st, column_names, flat_item)
        ELSE LET missing_columns == DOMAIN flat_item \ DOMAIN st.tables[t]
             IN  IF missing_columns = {} THEN [ok |-> TRUE, err |-> "", st |-> st]
                 ELSE IF ValidateItemSchema(item) # <<>>
                 THEN [ok |-> FALSE, err |-> "TypeError", st |-> st]
                 ELSE AddMissingColumns(st, t, flat_item, missing_columns)

Result(st, ok, err, uid) == [st |-> st, ok |-> ok, err |-> err, uid |-> uid]

\* the tables _create_options_table makes
OptionsTable == <<"_", "options">>
SchemasTable == <<"_", "schemas">>

\* the PRIMARY KEY column of a table: uid in a table _create_table made
PrimaryKey(t) ==
    IF t = OptionsTable THEN <<"key">>
    ELSE IF t = SchemasTable THEN <<"id">>
    ELSE UID

\* the keys of the rows that _set_option and _set_schema wrote
NativeKeys(t) ==
    IF t = OptionsTable THEN {<<"strict">>, <<"discriminator">>}
    ELSE IF t = SchemasTable THEN schemas
    ELSE {}

\* the row breaks the UNIQUE constraint of the primary key: one of the other
\* rows has its key; a row without a value in the key column breaks nothing
KeyTaken(t, row, others) ==
    LET pk == PrimaryKey(t)
    IN  /\ pk \in DOMAIN row
        /\ \/ row[pk].s \in NativeKeys(t)
           \/ \E r \in others : pk \in DOMAIN r /\ r[pk] = row[pk]

\* the statement names a table the index has, and columns the table has
Prepares(d, t, names) ==
    /\ t \in DOMAIN d.cols
    /\ \A n \in names : HasColumn(d.cols[t], n)

\* the row an INSERT or UPDATE writes: NULL is the absent column; of two names
\* for one column, one gives the value
BoundRow(cols, names, flat_item) ==
    LET bound == {n \in names : flat_item[n].k # "null"}
    IN  [c \in {Column(cols, n) : n \in bound} |->
            Affinity(cols[c],
                     flat_item[IF c \in bound THEN c
                               ELSE CHOOSE n \in bound : Column(cols, n) = c])]

\* an insert that files a record without a type under "foo"
InsertItemDefaultType(st, strict, item0, uuid) ==
    LET item1 == IF "type" \in TopKeys(item0) THEN item0
                 ELSE (DISCRIMINATOR :> Txt(<<"foo">>)) @@ item0
        item2 == IF "uid" \in TopKeys(item1) THEN item1
                 ELSE (UID :> Txt(item1[DISCRIMINATOR].s \o <<"--">> \o uuid)) @@ item1
        f == FlattenItem(item2)
        e == EnsureTable(st, f.column_names, f.flat_item, f.item)
        t == f.item[DISCRIMINATOR].s
        row == BoundRow(e.st.db.cols[t], f.column_names, f.flat_item)
    IN  IF ~e.ok THEN Result(e.st, FALSE, e.err, <<>>)
        ELSE IF strict /\ ValidateItemSchema(f.item) # <<>>
        THEN Result(e.st, FALSE, "TypeError", <<>>)
        ELSE IF ~Prepares(e.st.db, t, f.column_names)
        THEN Result(e.st, FALSE, "OperationalError", <<>>)
        ELSE IF KeyTaken(t, row, e.st.db.rows[t])
        THEN Result(e.st, FALSE, "IntegrityError", <<>>)
        ELSE Result(St([e.st.db EXCEPT !.rows[t] = @ \cup {row}], e.st.tables),
                    TRUE, "", f.item[UID].s)

\* insert(item), uuid being what uuid4 returns
InsertItem(st, strict, item0, uuid) ==
    IF "type" \notin TopKeys(item0) THEN Result(st, FALSE, "KeyError", <<>>)
    ELSE
    LET item1 == IF "uid" \in TopKeys(item0) THEN item0
                 ELSE (UID :> Txt(item0[DISCRIMINATOR].s \o <<"--">> \o uuid)) @@ item0
        f == FlattenItem(item1)
        e == EnsureTable(st, f.column_names, f.flat_item, f.item)
        t == f.item[DISCRIMINATOR].s
        row == BoundRow(e.st.db.cols[t], f.column_names, f.flat_item)
    IN  IF ~e.ok THEN Result(e.st, FALSE, e.err, <<>>)
        ELSE IF strict /\ ValidateItemSchema(f.item) # <<>>
        THEN Result(e.st, FALSE, "TypeError", <<>>)
        ELSE IF ~Prepares(e.st.db, t, f.column_names)
        THEN Result(e.st, FALSE, "OperationalError", <<>>)
        ELSE IF KeyTaken(t, row, e.st.db.rows[t])
        THEN Result(e.st, FALSE, "IntegrityError", <<>>)
        ELSE Result(St([e.st.db EXCEPT !.rows[t] = @ \cup {row}], e.st.tables),
                    TRUE, "", f.item[UID].s)

\* get(item_id): [ok, item]
Get(d, item_id) ==
    LET t == PartitionHead(item_id)
    IN  IF t \notin DOMAIN d.cols \/ ~\E r \in d.rows[t] : r[UID] = Txt(item_id)
        THEN [ok |-> FALSE, item |-> <<>>]
        ELSE [ok |-> TRUE,
              item |-> RowToItem(CHOOSE r \in d.rows[t] : r[UID] = Txt(item_id))]

\* dict.update: the top-level keys of the partial item replace those of the item
Merge(item, partial_item) ==
    partial_item @@ Restrict(item, {p \in DOMAIN item : p[1] \notin TopKeys(partial_item)})

\* an update that inserts the partial record when the uid is not found
UpdateItemUpsert(st, strict, item_id, partial_item, uuid) ==
    IF Get(st.db, item_id).ok THEN Result(st, TRUE, "", item_id)
    ELSE InsertItem(st, FALSE,
                    (UID :> Txt(item_id))
                        @@ (DISCRIMINATOR :> Txt(PartitionHead(item_id)))
                        @@ partial_item,
                    uuid)

\* update(item_id, partial_item); uuid is passed on to insert, which has a uid
UpdateItem(st, strict, item_id, partial_item, uuid) ==
    LET g == Get(st.db, item_id)
        old_discriminator == g.item[DISCRIMINATOR]
        updated_item == Merge(g.item, partial_item)
        item_uuid == PartitionTail(item_id)
        f == FlattenItem(updated_item)
        e == EnsureTable(st, f.column_names, f.flat_item, updated_item)
        t == updated_item[DISCRIMINATOR].s
        old == CHOOSE r \in e.st.db.rows[t] : r[UID] = Txt(item_id)
        set == BoundRow(e.st.db.cols[t], DOMAIN f.flat_item, f.flat_item)
        row == set @@ Restrict(old, DOMAIN old \ {Column(e.st.db.cols[t], n) :
                                                    n \in DOMAIN f.flat_item})
    IN  IF ~g.ok THEN Result(st, FALSE, "KeyError", <<>>)
        ELSE IF "type" \in TopKeys(partial_item)
                /\ old_discriminator # partial_item[DISCRIMINATOR]
        THEN \* type changed
             IF partial_item[DISCRIMINATOR].k # "text"
             THEN Result(st, FALSE, "TypeError", <<>>)
             ELSE InsertItem(
                    St([st.db EXCEPT !.rows[old_discriminator.s] =
                            {r \in @ : r[UID] # Txt(item_id)}], st.tables),
                    strict,
                    (UID :> Txt(partial_item[DISCRIMINATOR].s \o <<"--">> \o item_uuid))
                        @@ updated_item,
                    uuid)
        ELSE IF ~e.ok THEN Result(e.st, FALSE, e.err, <<>>)
        ELSE IF ~Prepares(e.st.db, t, DOMAIN f.flat_item)
        THEN Result(e.st, FALSE, "OperationalError", <<>>)
        ELSE IF \E c \in DOMAIN f.flat_item : f.flat_item[c].k = "elist"
        THEN Result(e.st, FALSE, "InterfaceError", <<>>)
        ELSE IF KeyTaken(t, row, e.st.db.rows[t] \ {old})
        THEN Result(e.st, FALSE, "IntegrityError", <<>>)
        ELSE Result(St([e.st.db EXCEPT !.rows[t] = (@ \ {old}) \cup {row}], e.st.tables),
                    TRUE, "", f.item[UID].s)

-----------------------------------------------------------------------------
(* select *)

\* a column name as text: the parts of the flat key joined by '.'
RECURSIVE KeyText(_)
KeyText(fk) ==
    IF Len(fk) <= 1 THEN fk ELSE <<fk[1], ".">> \o KeyText(Tail(fk))

\* the text of a value formatted with "%s"
Str(v) == IF v.k = "int" THEN Dec(v.i) ELSE v.s

\* a double-quoted token of the WHERE clause: the column of that name when the
\* table has one (NULL when the row has no value in it), else the text itself
Operand(cols, row, text) ==
    IF \E c \in DOMAIN cols : KeyText(c) = text
    THEN LET c == CHOOSE c \in DOMAIN cols : KeyText(c) = text
         IN  IF c \in DOMAIN row THEN Str(row[c]) ELSE <<"NULL">>
    ELSE text

\* LIKE folds the case of ASCII letters
\* x LIKE pattern: '%' matches any text, '_' any one character
RECURSIVE Like(_, _)
Like(x, pattern) ==
    IF pattern = <<>> THEN x = <<>>
    ELSE IF pattern[1] = "%"
    THEN \E n \in 0..Len(x) : Like(SubSeq(x, n + 1, Len(x)), Tail(pattern))
    ELSE /\ x # <<>>
         /\ pattern[1] = "_" \/ Lower(pattern[1]) = Lower(x[1])
         /\ Like(Tail(x), Tail(pattern))

\* select(item_type, conditions): the records the query yields; a condition is
\* a mapping from keys to values, its 'type' key is skipped, a condition left
\* without clauses is dropped
Select(d, item_type, conditions) ==
    LET Ands(c) == {k \in DOMAIN c : k # <<"type">>}
        ors == {c \in conditions : Ands(c) # {}}
        Holds(row, c) ==
            \A k \in Ands(c) :
                LET x == Operand(d.cols[item_type], row, KeyText(k))
                    y == Operand(d.cols[item_type], row, Str(c[k]))
                IN  x # <<"NULL">> /\ y # <<"NULL">> /\ Like(x, y)
    IN  IF item_type \notin DOMAIN d.cols THEN {}
        ELSE {RowToItem(row) : row \in {r \in d.rows[item_type] :
                                    ors = {} \/ \E c \in ors : Holds(r, c)}}

-----------------------------------------------------------------------------
(* Content store *)

\* the extensions of the file names
Exts == {".x"}

\* fs.path.splitext: the path without its extension, and the extension
SplitExt(file_path) ==
    IF Len(file_path) > 0 /\ file_path[Len(file_path)] \in Exts
    THEN [base |-> SubSeq(file_path, 1, Len(file_path) - 1),
          ext |-> <<file_path[Len(file_path)]>>]
    ELSE [base |-> file_path, ext |-> <<>>]

\* "%s_%d%s" % (base_path, i, ext)
Suffixed(base_path, i, ext) == base_path \o <<"_", Digits[i + 1]>> \o ext

\* a loop that numbers the names from 1
RECURSIVE FreePathFromOne(_, _, _, _, _)
FreePathFromOne(fs, file_path, base_path, ext, i) ==
    IF file_path \in DOMAIN fs
    THEN FreePathFromOne(fs, Suffixed(base_path, i + 1, ext), base_path, ext, i + 1)
    ELSE file_path

\* store_file's loop: the first of file_path, base_0.ext, base_1.ext, ... that
\* does not exist
RECURSIVE FreePath(_, _, _, _, _)
FreePath(fs, file_path, base_path, ext, i) ==
    IF file_path \in DOMAIN fs
    THEN FreePath(fs, Suffixed(base_path, i, ext), base_path, ext, i + 1)
    ELSE file_path

\* hashlib: the digest of a byte string, in hex, for an algorithm
HexDigest(algo, bytes) == <<algo>> \o bytes

\* HashedFile.__init__: the hashers, and the file opened in mode 'xb+'
HashedFile(fs, path) ==
    IF path \in DOMAIN fs
    THEN [ok |-> FALSE, fs |-> fs, file |-> <<>>]
    ELSE [ok |-> TRUE,
          fs |-> (path :> <<>>) @@ fs,
          file |-> [path |-> path, hashers |-> [a \in {"MD5", "SHA-1"} |-> <<>>]]]

\* HashedFile.write: every hasher is fed, the file is appended to
HashedFileWrite(fs, file, data) ==
    [fs |-> [fs EXCEPT ![file.path] = @ \o data],
     file |-> [file EXCEPT !.hashers = [a \in DOMAIN @ |-> @[a] \o data]]]

\* HashedFile.get_hashes
GetHashes(file) == [a \in DOMAIN file.hashers |-> HexDigest(a, file.hashers[a])]

\* a store that opens the desired path whatever is there
StoreFileOverwrite(fs, file_path) ==
    [ok |-> TRUE,
     fs |-> (file_path :> <<>>) @@ fs,
     file |-> [path |-> file_path, hashers |-> [a \in {"MD5", "SHA-1"} |-> <<>>]]]

\* store_file up to its yield: (file_path, the_file)
StoreFile(fs, file_path) ==
    LET s == SplitExt(file_path)
    IN  HashedFile(fs, FreePath(fs, file_path, s.base, s.ext, 0))

-----------------------------------------------------------------------------
(* Export writers and the consistency check *)

\* path.join(item.get("artifact", "."), export_name), normalised
JoinArtifact(item, export_name) ==
    IF "artifact" \in TopKeys(item)
    THEN item[<<"artifact">>].s \o <<"/">> \o export_name
    ELSE export_name

\* _add_file_field after the yield: the partial record the writer's scope
\* stitches into the record on exit
FileFieldUpdate(fs, file) ==
    LET hashes == GetHashes(file)
    IN  (<<"export_path">> :> Txt(file.path))
        @@ [p \in {<<"hashes", a>> : a \in DOMAIN hashes} |-> Txt(hashes[p[2]])]
        @@ (<<"size">> :> Num(Len(fs[file.path])))

\* the field names that end in "_path"
PathFields == {"export_path", "stdout_path", "stderr_path", "wmi_path", "foo_path"}

\* '..' in export_path
HasDotDot(p) == \E n \in 1..Len(p) : p[n] = ".."

\* validate_item: (validation_errors, expected_files), or what it raises:
\* KeyError from validate_item_schema, which reads item[discriminator], when
\* the item has no discriminator; TypeError from "'..' in export_path" when a
\* field ending in _path holds an integer
ValidateItem(fs, item) ==
    LET schema == ValidateItemSchema(item)
        fields == {f \in TopKeys(item) : f \in PathFields}
        kept == {f \in fields : ~HasDotDot(item[<<f>>].s)}
        found == {f \in kept : item[<<f>>].s \in DOMAIN fs}
        hashes == {p \in DOMAIN item : Len(p) = 2 /\ p[1] = "hashes"}
    IN  IF "type" \notin TopKeys(item)
        THEN [ok |-> FALSE, err |-> "KeyError", errors |-> {}, expected_files |-> {}]
        ELSE IF \E f \in fields : item[<<f>>].k = "int"
        THEN [ok |-> FALSE, err |-> "TypeError", errors |-> {}, expected_files |-> {}]
        ELSE
        [ok |-> TRUE, err |-> "",
         errors |->
            {<<schema[n], <<>>>> : n \in 1..Len(schema)}
            \cup {<<"'..' in", item[<<f>>].s>> : f \in fields \ kept}
            \cup {<<"wrong size", item[<<f>>].s>> :
                    f \in {g \in found : "size" \in TopKeys(item)
                                /\ item[<<"size">>] # Num(Len(fs[item[<<g>>].s]))}}
            \cup UNION {{<<"unsupported hash", <<p[2]>> \o item[<<f>>].s>> :
                            p \in {q \in hashes : q[2] \notin {"MD5", "SHA-1"}}}
                        : f \in found}
            \cup UNION {{<<"hashvalue mismatch", <<p[2]>> \o item[<<f>>].s>> :
                            p \in {q \in hashes : q[2] \in {"MD5", "SHA-1"}
                                    /\ item[q] # Txt(HexDigest(q[2], fs[item[<<f>>].s]))}}
                        : f \in found},
         expected_files |-> {item[<<f>>].s : f \in kept}]

\* all(): the records of the tables whose name has no "sqlite" in it and does
\* not start with "_"
All(d) ==
    UNION {{RowToItem(r) : r \in d.rows[t]} :
            t \in {u \in DOMAIN d.rows :
                    u[1] # "_" /\ ~\E n \in 1..Len(u) : u[n] = "sqlite"}}

\* the index file of the container
DbFile == <<"item.db">>

\* validate() raises what validate_item raises for one of the records
ValidateRaises(d, fs) == \E item \in All(d) : ~ValidateItem(fs, item).ok

\* validate(): the errors of the records, missing files, additional files
Validate(d, fs) ==
    LET expected_files == {DbFile} \cup UNION {ValidateItem(fs, item).expected_files : item \in All(d)}
        stored_files == {DbFile} \cup DOMAIN fs
    IN  UNION {ValidateItem(fs, item).errors : item \in All(d)}
        \cup (IF expected_files \ stored_files # {} THEN {<<"missing files", <<>>>>} ELSE {})
        \cup (IF stored_files \ expected_files # {} THEN {<<"additional files", <<>>>>} ELSE {})

-----------------------------------------------------------------------------
(* The records and partial records the callers pass *)

T(tok) == Txt(<<tok>>)

Rec(type) == <<"type">> :> T(type)

FooUid == <<"foo", "--", "u1">>

InsertItems ==
    { Rec("foo") @@ (<<"name">> :> Num(7)),
      Rec("foo") @@ (<<"name">> :> T("7")),
      Rec("file") @@ (UID :> Txt(FooUid)) @@ (<<"name">> :> T("a")),
      Rec("file") @@ (<<"name">> :> Num(7)),
      Rec("file") @@ (<<"bad">> :> T("a")) }

PartialItems ==
    { <<"name">> :> T("b"),
      <<"name">> :> Null,
      Rec("file") }

UuidTok == <<"u1", "u2", "u3", "u4", "u5", "u6">>

\* the uids of the rows of the index
StoredUids(d) == UNION {{r[UID].s : r \in d.rows[t]} : t \in DOMAIN d.rows}

\* uuid4 never returns a uuid that is in use; the code only compares uuids, so
\* the first unused one stands for any of them
Uuid4(d) ==
    LET Used(n) == \E id \in StoredUids(d) : PartitionTail(id) = <<UuidTok[n]>>
    IN  <<UuidTok[CHOOSE n \in 1..Len(UuidTok) : ~Used(n) /\ \A m \in 1..(n - 1) : Used(m)]>>

NoItem == <<>>

\* the last call: its name, whether it returned, what it raised, of a call that
\* returned its arguments and its result, the errors validate returned, the
\* conditions select was given and the records get, select and all yielded
Last(op, ok, err, item, id, ret) ==
    [op |-> op, ok |-> ok, err |-> err,
     item |-> IF ok THEN item ELSE NoItem,
     id |-> IF ok THEN id ELSE <<>>,
     ret |-> ret,
     errors |-> {},
     conds |-> {},
     items |-> {}]

-----------------------------------------------------------------------------
(* Operations *)

\* the index of a new container: the two tables _create_options_table makes.
\* rows holds the rows insert and update write; the rows _set_option and
\* _set_schema write are options and schemas
EmptyDb ==
    [cols |-> (OptionsTable :> (<<"key">> :> "TEXT" @@ <<"value">> :> "TEXT"))
              @@ (SchemasTable :> (<<"id">> :> "TEXT" @@ <<"schema">> :> "TEXT")),
     rows |-> (OptionsTable :> {}) @@ (SchemasTable :> {})]

\* the value column of _options is TEXT: a bool is bound as the integer 0 or
\* 1, and the column holds its text
StoredOption(b) == Affinity("TEXT", Num(IF b THEN 1 ELSE 0))

\* bool(value) of Python
Truth(v) == IF v.k = "int" THEN v.i # 0 ELSE v.s # <<>>

\* _set_option("strict", b): the row is written and the cache keeps the bool;
\* strict is the truth value of what strict() returns, value the text of the row
SetOption(b) == [strict |-> b, value |-> StoredOption(b)]

\* _option("strict") on a handle that has not set it: the value of the row, as
\* SQLite returns it
LoadOption(value) == [strict |-> Truth(value), value |-> value]

\* no index file
NoDisk == [exists |-> FALSE, db |-> EmptyDb, options |-> StoredOption(TRUE)]

\* JSONLite.__init__ for the container whose index file is d: the handle and the
\* database it works on; a new index when the root has no index file, the
\* index file itself on a local backend opened read-write, else a copy of it in
\* a directory mkdtemp made (scratch); attached: the connection is to that
\* file, committed: the file as the last commit before a reconnect left it
OpenHandle(d, read_only, local) ==
    IF read_only /\ ~d.exists
    THEN [ok |-> FALSE, db |-> EmptyDb, options |-> SetOption(TRUE), disk |-> d,
          handle |-> [open |-> FALSE, read_only |-> read_only, local |-> local,
                      new |-> TRUE, scratch |-> TRUE, attached |-> TRUE, committed |-> d]]
    ELSE [ok |-> TRUE,
          db |-> IF d.exists THEN d.db ELSE EmptyDb,
          options |-> IF d.exists THEN LoadOption(d.options) ELSE SetOption(TRUE),
          disk |-> IF ~d.exists /\ local
                   THEN [exists |-> TRUE, db |-> EmptyDb, options |-> StoredOption(TRUE)]
                   ELSE d,
          handle |-> [open |-> TRUE, read_only |-> read_only, local |-> local,
                      new |-> ~d.exists, scratch |-> ~(local /\ ~read_only),
                      attached |-> TRUE, committed |-> d]]

\* the index file as a handle leaves it
Saved(database, opts) == [exists |-> TRUE, db |-> database, options |-> opts.value]

\* a close that never copies the index file back to the root
CloseHandleNoCopyBack(h, d, database, opts) ==
    IF h.local /\ ~h.read_only THEN Saved(database, opts) ELSE d

\* a close that saves the index whatever the mode of the handle
CloseHandleCopyAlways(h, d, database, opts) == Saved(database, opts)

\* close(): the index file under the root afterwards; commit writes it in place
\* on a local backend opened read-write, a non-local backend opened read-write
\* gets the working copy, a read-only handle leaves it alone
CloseHandle(h, d, database, opts) ==
    IF ~h.attached
    THEN \* the connection is to another file: commit writes that one
         IF ~h.local /\ ~h.read_only THEN h.committed ELSE d
    ELSE IF h.local /\ ~h.read_only THEN Saved(database, opts)
    ELSE IF ~h.local /\ ~h.read_only THEN Saved(database, opts)
    ELSE d

\* close(): whether the directory mkdtemp made is there afterwards; removetree
\* runs only on a non-local backend opened read-write
CloseScratch(h) == IF ~h.local /\ ~h.read_only THEN FALSE ELSE h.scratch

\* no generator of select or all is waiting to be consumed
NoPending == [op |-> "", item_type |-> <<>>, conds |-> {}, called |-> EmptyDb]

\* ForensicStore.metadata after construction: the envelope's identifier, and no
\* objects
NoMetadata == [id |-> <<"observed-data">>, objects |-> <<>>]

\* the state after jsonlite.connect(url) on a new container
Constructed(local) ==
    LET o == OpenHandle(NoDisk, FALSE, local)
    IN  /\ db = o.db
        /\ tables = o.db.cols
        /\ options = o.options
        /\ schemas \in {{}, {<<"file">>}}
        /\ files = <<>>
        /\ writers = <<>>
        /\ handed = {}
        /\ last = Last("connect", TRUE, "", NoItem, <<>>, <<>>)
        /\ handle = o.handle
        /\ disk = o.disk
        /\ metadata = NoMetadata
        /\ pending = NoPending

\* the same, in an interpreter whose sets iterate in the first order: the order
\* shows only in a call whose ALTER TABLE fails
Construct(local) == Constructed(local) /\ hashseed = FALSE

Init == Construct(TRUE)

Insert(Items) ==
    \E item \in Items :
        \E r \in {InsertItem(St(db, tables), options.strict, item, Uuid4(db))} :
            /\ handle.open
            /\ NRows(r.st.db) <= MaxRows
            /\ db' = r.st.db
            /\ tables' = r.st.tables
            /\ last' = Last("insert", r.ok, r.err, item, <<>>, r.uid)
            /\ UNCHANGED <<hashseed, pending, metadata, handle, disk, options, schemas, files, writers, handed>>

Update(Partials) ==
    \E item_id \in StoredUids(db) \cup {FooUid}, partial_item \in Partials :
        \E r \in {UpdateItem(St(db, tables), options.strict, item_id, partial_item, <<>>)} :
            /\ handle.open
            /\ db' = r.st.db
            /\ tables' = r.st.tables
            /\ last' = Last("update", r.ok, r.err, partial_item, item_id, r.uid)
            /\ UNCHANGED <<hashseed, pending, metadata, handle, disk, options, schemas, files, writers, handed>>

SetStrict ==
    \E strict \in BOOLEAN :
        /\ handle.open
        /\ options' = SetOption(strict)
        /\ last' = Last("set_strict", TRUE, "", NoItem, <<>>, <<>>)
        /\ UNCHANGED <<hashseed, pending, metadata, handle, disk, schemas, db, tables, files, writers, handed>>

Next == Insert(InsertItems) \/ Update(PartialItems) \/ SetStrict

Spec == Init /\ [][Next]_vars

-----------------------------------------------------------------------------
(* Properties of the record index *)

\* a record without its null-valued and empty-list fields
Erase(item) == Restrict(item, {p \in DOMAIN item : item[p].k \notin {"null", "elist"}})

\* the rows of the index, each with its table
AllRows == UNION {{<<t, r>> : r \in db.rows[t]} : t \in DOMAIN db.rows}

\* the step is an update that returned and changed the type of the record
TypeChanged ==
    /\ last'.op = "update" /\ last'.ok
    /\ "type" \in TopKeys(last'.item)
    /\ Get(db, last'.id).item[DISCRIMINATOR] # last'.item[DISCRIMINATOR]

\* C1: get(insert(r)) is r with its uid, without its null-valued and empty-list
\* fields, every scalar with the value and the kind it was inserted with.
C1_GetInsertRoundTrip ==
    (last.op = "insert" /\ last.ok) =>
        LET g == Get(db, last.ret)
        IN  g.ok /\ g.item = Erase((UID :> Txt(last.ret)) @@ last.item)

\* C2: no two stored records have the same uid, in one table or in two.
C2_UidUnique ==
    \A x \in AllRows, y \in AllRows : x[2][UID] = y[2][UID] => x = y

\* C3: every stored record has the discriminator, and it equals the part of the
\* uid before "--", which names the table get(uid) looks in.
C3_TypeIsUidPrefix ==
    \A x \in AllRows :
        /\ DISCRIMINATOR \in DOMAIN x[2]
        /\ x[2][DISCRIMINATOR].s = PartitionHead(x[2][UID].s)
        /\ x[1] = PartitionHead(x[2][UID].s)

\* C4: in strict mode insert of a record that fails the schema of its type
\* raises TypeError and leaves the index as it was: no row, no table and no
\* column is added.
C4_StrictInvalidInsertUnchanged ==
    options.strict =>
        \A item \in InsertItems :
            ("type" \in TopKeys(item) /\ ValidateItemSchema(FlattenItem(item).item) # <<>>) =>
                LET r == InsertItem(St(db, tables), options.strict, item, Uuid4(db))
                IN  ~r.ok /\ r.err = "TypeError" /\ r.st.db = db /\ r.st.tables = tables

\* C23: with strict mode off, insert of a record that fails the schema of its
\* type stores the record and returns its uid, whether or not the table or a
\* column is new.
C23_NonStrictInsertStores ==
    ~options.strict =>
        \A item \in InsertItems :
            ("type" \in TopKeys(item) /\ ValidateItemSchema(FlattenItem(item).item) # <<>>) =>
                LET r == InsertItem(St(db, tables), options.strict, item, Uuid4(db))
                IN  r.ok /\ Get(r.st.db, r.uid).ok

\* C24: an update that changes the type and fails leaves the container as it
\* was: get of the old uid returns the old record and the number of records is
\* the same.
C24_FailedTypeChangeRollsBack ==
    \A item_id \in StoredUids(db), partial_item \in PartialItems :
        LET g == Get(db, item_id)
            r == UpdateItem(St(db, tables), options.strict, item_id, partial_item, <<>>)
        IN  (/\ g.ok
             /\ "type" \in TopKeys(partial_item)
             /\ g.item[DISCRIMINATOR] # partial_item[DISCRIMINATOR]
             /\ ~r.ok) =>
                /\ Get(r.st.db, item_id) = g
                /\ NRows(r.st.db) = NRows(db)

\* C4 witness: a strict insert was refused while the table of its type existed
C4_Witness ==
    /\ last.op = "insert" /\ last.err = "TypeError" /\ options.strict
    /\ <<"file">> \in DOMAIN db.cols
    /\ db.rows[<<"file">>] # {}

\* C5: after an update that returned and did not change the type, get(uid) is
\* the record as it was before the update merged with the partial record.
C5_UpdateIsMerge ==
    [][(last'.op = "update" /\ last'.ok /\ ~TypeChanged) =>
        LET g == Get(db', last'.ret)
        IN  g.ok /\ g.item = Erase(Merge(Get(db, last'.id).item, last'.item))]_vars

\* C6: after an update that returned and changed the type from A to B, the old
\* uid is not found, the returned uid is B, "--" and the uuid of the old uid,
\* and get(returned uid) is the old record merged with the partial record, its
\* uid rewritten.
C6_UpdateTypeMoves ==
    [][TypeChanged =>
        LET g == Get(db', last'.ret)
            uid == last'.item[DISCRIMINATOR].s \o <<"--">> \o PartitionTail(last'.id)
        IN  /\ ~Get(db', last'.id).ok
            /\ last'.ret = uid
            /\ g.ok
            /\ g.item = Erase((UID :> Txt(uid))
                              @@ Merge(Get(db, last'.id).item, last'.item))]_vars

-----------------------------------------------------------------------------
(* Content store operations *)

DesiredPaths == {<<"a", ".x">>, <<"a", "_", "0", ".x">>, <<"bar">>}

Chunks == {<<"A">>}

\* what the model keeps beside an open HashedFile: the record and the field its
\* scope stitches the path into (none for store_file itself), and whether the
\* scope that yielded it is still running
NoWriter == [item_id |-> <<>>, export |-> FALSE, field |-> "", scope |-> TRUE]

\* with store_file(file_path) as (path, io): entering the scope
OpenStore(Paths) ==
    \E file_path \in Paths :
        LET r == StoreFile(files, file_path)
        IN  /\ Cardinality(DOMAIN files) < MaxFiles
            /\ files' = r.fs
            /\ writers' = IF r.ok THEN (r.file.path :> (r.file @@ NoWriter)) @@ writers
                          ELSE writers
            /\ handed' = IF r.ok THEN handed \cup {r.file.path} ELSE handed
            /\ last' = Last("store", r.ok, IF r.ok THEN "" ELSE "FileExists",
                            NoItem, file_path, IF r.ok THEN r.file.path ELSE <<>>)
            /\ UNCHANGED <<hashseed, pending, metadata, handle, disk, db, tables, options, schemas>>

\* io.write(data) on an open writer
Write ==
    \E path \in DOMAIN writers, data \in Chunks :
        LET r == HashedFileWrite(files, writers[path], data)
        IN  /\ Len(files[path]) < MaxFileLen
            /\ files' = r.fs
            /\ writers' = [writers EXCEPT ![path] = r.file @@ @]
            /\ last' = Last("write", TRUE, "", NoItem, <<>>, path)
            /\ UNCHANGED <<hashseed, pending, metadata, handle, disk, db, tables, options, schemas, handed>>

\* leaving the scope of store_file: the_file.close()
CloseStore ==
    \E path \in DOMAIN writers :
        /\ ~writers[path].export /\ writers[path].field = "" /\ writers[path].scope
        /\ writers' = Restrict(writers, DOMAIN writers \ {path})
        /\ last' = Last("close_file", TRUE, "", NoItem, <<>>, path)
        /\ UNCHANGED <<hashseed, pending, metadata, handle, disk, db, tables, options, schemas, files, handed>>

NextStore == OpenStore(DesiredPaths) \/ Write \/ CloseStore

SpecStore == Init /\ [][NextStore]_vars

-----------------------------------------------------------------------------
(* Properties of the content store *)

\* C7: a store call is given a path no earlier call was given, and leaves the
\* bytes of every file that existed before the call as they were, writers that
\* are still open included; a write changes the file of its writer only.
C7_StoreNeverOverwrites ==
    [][/\ (last'.op = "store" /\ last'.ok) =>
            /\ last'.ret \notin handed
            /\ last'.ret \notin DOMAIN files
            /\ \A p \in DOMAIN files : p \in DOMAIN files' /\ files'[p] = files[p]
       /\ last'.op = "write" =>
            \A p \in DOMAIN files \ {last'.ret} :
                p \in DOMAIN files' /\ files'[p] = files[p]]_vars

\* C7 witness: the desired name was taken by a file with bytes whose writer is
\* still open, and the call was given another path
C7_Witness ==
    /\ last.op = "store" /\ last.ok
    /\ last.id = <<"a", ".x">> /\ last.ret # last.id
    /\ last.id \in DOMAIN writers /\ last.ret \in DOMAIN writers
    /\ files[last.id] # <<>>

\* C8: a store call returns the desired path when no file has it, and otherwise
\* the desired path with _k before its extension, k the least number from 0
\* whose path no file has; the call returns, after at most one candidate per
\* file.
C8_StoreFirstFreePath ==
    [][last'.op = "store" =>
        LET desired == last'.id
            s == SplitExt(desired)
            n == Cardinality(DOMAIN files)
        IN  /\ last'.ok
            /\ IF desired \notin DOMAIN files THEN last'.ret = desired
               ELSE \E k \in 0..(n - 1) :
                        /\ last'.ret = Suffixed(s.base, k, s.ext)
                        /\ last'.ret \notin DOMAIN files
                        /\ \A j \in 0..(k - 1) :
                                Suffixed(s.base, j, s.ext) \in DOMAIN files]_vars

\* C8 witness: the desired path and its _0 were taken, the call was given _1
C8_Witness ==
    /\ last.op = "store" /\ last.ok
    /\ last.id = <<"a", ".x">>
    /\ last.ret = <<"a", "_", "1", ".x">>

-----------------------------------------------------------------------------
(* Export writers and validate *)

SHA256 == <<"hashes", "SHA-256">>

PayloadItems ==
    { Rec("file") @@ (<<"name">> :> T("a")),
      Rec("file") @@ (<<"name">> :> T("a")) @@ (SHA256 :> T("00")),
      (<<"type">> :> Txt(<<"_", "t">>)) @@ (<<"foo_path">> :> Txt(<<"..", "/", "bar">>)) }

\* the export names the callers pass; <<>> is None
ExportNames == {<<>>}

\* with add_file_item_export(item_id, export_name) as the_file: entering the scope
AddFileItemExport ==
    \E item_id \in StoredUids(db), export_name \in ExportNames :
        LET g == Get(db, item_id)
            name == IF export_name = <<>> THEN g.item[<<"name">>].s ELSE export_name
            r == StoreFile(files, JoinArtifact(g.item, name))
            err == IF ~g.ok THEN "KeyError"
                   ELSE IF export_name = <<>> /\ "name" \notin TopKeys(g.item) THEN "KeyError"
                   ELSE IF g.item[DISCRIMINATOR] # T("file") THEN "TypeError"
                   ELSE IF ~r.ok THEN "FileExists"
                   ELSE ""
        IN  /\ Cardinality(DOMAIN files) < MaxExports
            /\ files' = IF err = "" THEN r.fs ELSE files
            /\ writers' = IF err = ""
                          THEN (r.file.path :> (r.file @@ [item_id |-> item_id, export |-> TRUE,
                                                      field |-> "export_path", scope |-> TRUE]))
                               @@ writers
                          ELSE writers
            /\ handed' = IF err = "" THEN handed \cup {r.file.path} ELSE handed
            /\ last' = Last("export", err = "", err, NoItem, item_id,
                            IF err = "" THEN r.file.path ELSE <<>>)
            /\ UNCHANGED <<hashseed, pending, metadata, handle, disk, db, tables, options, schemas>>

\* leaving the scope of add_file_item_export normally: the file is closed and
\* export_path, hashes and size are stitched into the record
ExportExit ==
    \E path \in DOMAIN writers :
        LET w == writers[path]
            r == UpdateItem(St(db, tables), options.strict, w.item_id,
                            FileFieldUpdate(files, w), <<>>)
        IN  /\ w.export /\ w.scope
            /\ db' = r.st.db
            /\ tables' = r.st.tables
            /\ writers' = Restrict(writers, DOMAIN writers \ {path})
            /\ last' = Last("export_exit", r.ok, r.err, NoItem, w.item_id, path)
            /\ UNCHANGED <<hashseed, pending, metadata, handle, disk, options, schemas, files, handed>>

\* validate()
DoValidate ==
    /\ last' = IF ValidateRaises(db, files)
               THEN Last("validate", FALSE, "TypeError", NoItem, <<>>, <<>>)
               ELSE [Last("validate", TRUE, "", NoItem, <<>>, <<>>)
                        EXCEPT !.errors = Validate(db, files)]
    /\ UNCHANGED <<hashseed, pending, metadata, handle, disk, db, tables, options, schemas, files, writers, handed>>

NextPayload ==
    \/ Insert(PayloadItems)
    \/ SetStrict
    \/ AddFileItemExport
    \/ Write
    \/ ExportExit
    \/ DoValidate

SpecPayload == Init /\ [][NextPayload]_vars

\* C9: when the scope of an export writer exits normally, the record's
\* export_path is the path the content store returned, its size is the number
\* of bytes written, its hashes hold the MD5 and SHA-1 digests of those bytes,
\* and validate_item reports no size or hash error for the record.
C9_ExportRecordValidates ==
    (last.op = "export_exit" /\ last.ok) =>
        LET g == Get(db, last.id)
            bytes == files[last.ret]
        IN  /\ g.ok
            /\ g.item[<<"export_path">>] = Txt(last.ret)
            /\ g.item[<<"size">>] = Num(Len(bytes))
            /\ g.item[<<"hashes", "MD5">>] = Txt(HexDigest("MD5", bytes))
            /\ g.item[<<"hashes", "SHA-1">>] = Txt(HexDigest("SHA-1", bytes))
            /\ \A e \in ValidateItem(files, g.item).errors :
                    e[1] \notin {"wrong size", "unsupported hash", "hashvalue mismatch"}

\* the record has sound payload references: no '..', the file exists, its length
\* is the record's size, its digests are the record's hashes
PathsValid(fs, item) ==
    \A f \in {g \in TopKeys(item) : g \in PathFields} :
        LET p == item[<<f>>].s
        IN  /\ ~HasDotDot(p)
            /\ p \in DOMAIN fs
            /\ "size" \in TopKeys(item) => item[<<"size">>] = Num(Len(fs[p]))
            /\ \A q \in {h \in DOMAIN item : Len(h) = 2 /\ h[1] = "hashes"} :
                    item[q] = Txt(HexDigest(q[2], fs[p]))

\* C10: when validate returns no error, every stored record of every type has
\* sound payload references.
C10_ValidateEmptyMeansPathsValid ==
    (last.op = "validate" /\ last.errors = {}) =>
        \A x \in AllRows : PathsValid(files, RowToItem(x[2]))

\* C22: after validate, every entry of a stored record's hashes whose algorithm
\* is neither MD5 nor SHA-1 has an error naming that algorithm.
C22_UnsupportedHashReported ==
    last.op = "validate" =>
        \A x \in AllRows :
            \A q \in {h \in DOMAIN RowToItem(x[2]) :
                        Len(h) = 2 /\ h[1] = "hashes" /\ h[2] \notin {"MD5", "SHA-1"}} :
                \E e \in last.errors : e[1] = "unsupported hash" /\ e[2][1] = q[2]

-----------------------------------------------------------------------------
(* update under a schema *)

SchemaItems ==
    { Rec("file") @@ (<<"name">> :> T("a")),
      Rec("foo") @@ (<<"name">> :> T("a")) }

SchemaPartials ==
    { <<"name">> :> Num(7),
      <<"name">> :> T("b"),
      <<"size">> :> T("x"),
      <<"size">> :> Num(1) }

NextSchema == Insert(SchemaItems) \/ Update(SchemaPartials) \/ SetStrict

SpecSchema == Init /\ [][NextSchema]_vars

\* C25: in strict mode an update that does not change the type and whose merged
\* record fails the schema of its type raises a validation error and leaves the
\* stored record as it was, whether or not a column is new.
C25_StrictUpdateValidates ==
    options.strict =>
        \A item_id \in StoredUids(db), partial_item \in SchemaPartials :
            LET g == Get(db, item_id)
                r == UpdateItem(St(db, tables), options.strict, item_id, partial_item, <<>>)
            IN  (g.ok /\ ValidateItemSchema(Merge(g.item, partial_item)) # <<>>) =>
                    /\ ~r.ok /\ r.err = "TypeError"
                    /\ Get(r.st.db, item_id) = g

-----------------------------------------------------------------------------
(* update and the other records *)

FrameItems ==
    { Rec("foo") @@ (<<"name">> :> T("a")),
      (<<"type">> :> Txt(<<"_", "t">>)) @@ (<<"name">> :> T("a")) }

FramePartials ==
    { <<"name">> :> T("b"),
      Rec("foo"),
      Rec("bar") }

NextFrame == Insert(FrameItems) \/ Update(FramePartials)

SpecFrame == Init /\ [][NextFrame]_vars

\* C26: an update that returned leaves every row other than the addressed one
\* as it was and leaves the number of records all() yields unchanged.
C26_UpdateFrame ==
    [][(last'.op = "update" /\ last'.ok) =>
        /\ \A x \in AllRows : x[2][UID] # Txt(last'.id) => x \in AllRows'
        /\ Cardinality(All(db')) = Cardinality(All(db))]_vars

-----------------------------------------------------------------------------
(* validate and the files under the root *)

Bar == <<"bar">>

ValidateItems ==
    { Rec("foo") @@ (<<"foo_path">> :> Txt(Bar)),
      Rec("foo") @@ (<<"foo_path">> :> Txt(<<"..", "/", "bar">>)),
      (<<"type">> :> Txt(<<"_", "t">>)) @@ (<<"foo_path">> :> Txt(Bar)) }

NextValidate ==
    \/ Insert(ValidateItems)
    \/ OpenStore({Bar})
    \/ Write
    \/ CloseStore
    \/ DoValidate

SpecValidate == Init /\ [][NextValidate]_vars

\* the payload paths under the root that the stored records refer to
Referenced ==
    UNION {{RowToItem(x[2])[<<f>>].s :
                f \in {g \in TopKeys(RowToItem(x[2])) :
                            g \in PathFields /\ ~HasDotDot(RowToItem(x[2])[<<g>>].s)}}
           : x \in AllRows}

\* C11: validate reports 'missing files' exactly when a payload path a stored
\* record refers to has no file under the root, and 'additional files' exactly
\* when a file under the root is not the index file and no stored record
\* refers to it.
C11_MissingAndAdditionalFiles ==
    last.op = "validate" =>
        /\ (<<"missing files", <<>>>> \in last.errors) <=> (Referenced \ DOMAIN files # {})
        /\ (<<"additional files", <<>>>> \in last.errors) <=> (DOMAIN files \ Referenced # {})

-----------------------------------------------------------------------------
(* Retrieval: get, select, all *)

QueryItems ==
    { Rec("foo") @@ (<<"name">> :> T("a")),
      Rec("foo") @@ (<<"name">> :> T("foo")) @@ (<<"tags">> :> EList),
      (<<"type">> :> Txt(<<"_", "t">>)) @@ (<<"name">> :> T("a")),
      <<"name">> :> T("a") }

QueryPartials ==
    { <<"name">> :> T("b"),
      <<"name">> :> Null }

\* uids of no record: of a type that has no table, and of a type that may
AbsentIds == {<<"bar", "--", "u1">>, <<"foo", "--", "u9">>}

QueryTypes == {<<"foo">>, <<"bar">>}

\* the conditions passed to select: sets of mappings from keys to values
QueryConditions ==
    { {},
      {<<"name">> :> T("a")},
      {<<"name">> :> T("A")},
      {<<"name">> :> T("type")},
      {Rec("foo"), <<"name">> :> T("b")} }

\* get(item_id)
DoGet ==
    \E item_id \in StoredUids(db) \cup AbsentIds :
        LET g == Get(db, item_id)
        IN  /\ last' = [Last("get", g.ok, IF g.ok THEN "" ELSE "KeyError",
                              NoItem, item_id, <<>>)
                            EXCEPT !.items = IF g.ok THEN {g.item} ELSE {}]
            /\ UNCHANGED <<hashseed, pending, metadata, handle, disk, db, tables, options, schemas, files, writers, handed>>

\* list(select(item_type, conditions))
DoSelect ==
    \E item_type \in QueryTypes, conditions \in QueryConditions :
        /\ last' = [Last("select", TRUE, "", NoItem, item_type, <<>>)
                        EXCEPT !.conds = conditions,
                               !.items = Select(db, item_type, conditions)]
        /\ UNCHANGED <<hashseed, pending, metadata, handle, disk, db, tables, options, schemas, files, writers, handed>>

\* list(all())
DoAll ==
    /\ last' = [Last("all", TRUE, "", NoItem, <<>>, <<>>) EXCEPT !.items = All(db)]
    /\ UNCHANGED <<hashseed, pending, metadata, handle, disk, db, tables, options, schemas, files, writers, handed>>

NextQuery ==
    \/ Insert(QueryItems)
    \/ Update(QueryPartials)
    \/ DoGet
    \/ DoSelect
    \/ DoAll

SpecQuery == Init /\ [][NextQuery]_vars

\* the stored records of a type
RecordsOf(item_type) ==
    {RowToItem(x[2]) : x \in {y \in AllRows : y[1] = item_type}}

\* C12: select yields the records of the type for which some condition has
\* every key, the discriminator apart, equal to the given value; every record
\* of the type when there is no condition; nothing for a type never written.
C12_SelectIsOrOfAnds ==
    (last.op = "select" /\ last.ok) =>
        last.items =
            {r \in RecordsOf(last.id) :
                \/ last.conds = {}
                \/ \E c \in last.conds :
                        \A k \in DOMAIN c \ {DISCRIMINATOR} :
                            k \in DOMAIN r /\ r[k] = c[k]}

\* C13: all() yields every stored record, whatever its type name.
C13_AllYieldsEveryRecord ==
    last.op = "all" => last.items = {RowToItem(x[2]) : x \in AllRows}

\* C14: get and update of a uid that has no row, its table existing or not,
\* raise KeyError and leave the index as it was: no table, column or row is
\* created or altered.
C14_NotFoundChangesNothing ==
    [][/\ \A item_id \in AbsentIds \cup {FooUid}, partial_item \in QueryPartials :
            ~Get(db, item_id).ok =>
                LET r == UpdateItem(St(db, tables), options.strict, item_id,
                                    partial_item, <<>>)
                IN  ~r.ok /\ r.err = "KeyError" /\ r.st = St(db, tables)
       /\ (last'.op \in {"get", "update"} /\ last'.err = "KeyError") =>
            db' = db /\ tables' = tables
       /\ last'.op = "get" =>
            /\ last'.ok <=> \E x \in AllRows :
                    x[1] = PartitionHead(last'.id) /\ x[2][UID].s = last'.id
            /\ ~last'.ok => last'.err = "KeyError"]_vars

\* C14 witness: update of an absent uid was refused while the table of its
\* type had rows
C14_Witness ==
    /\ last.op = "update" /\ last.err = "KeyError"
    /\ <<"foo">> \in DOMAIN db.cols
    /\ db.rows[<<"foo">>] # {}

\* C15: insert of a record without the discriminator raises KeyError before
\* anything is changed: no table, column or row is created and no uid is
\* given.
C15_MissingDiscriminator ==
    \A item \in QueryItems :
        "type" \notin TopKeys(item) =>
            LET r == InsertItem(St(db, tables), options.strict, item, Uuid4(db))
            IN  ~r.ok /\ r.err = "KeyError" /\ r.st = St(db, tables) /\ r.uid = <<>>

\* C15 witness: an insert was refused for its missing discriminator in an
\* index that holds records
C15_Witness ==
    /\ last.op = "insert" /\ last.err = "KeyError"
    /\ AllRows # {}

\* C16: no record get, select or all returns has a null or an empty list, and
\* a field inserted or updated with null or [] is absent from the record that
\* is retrieved afterwards.
C16_NullAndEmptyAbsent ==
    [][/\ last'.op \in {"get", "select", "all"} =>
            \A r \in last'.items : \A p \in DOMAIN r : r[p].k \notin {"null", "elist"}
       /\ (last'.op \in {"insert", "update"} /\ last'.ok) =>
            LET g == Get(db', last'.ret)
            IN  g.ok => \A p \in DOMAIN last'.item :
                            last'.item[p].k \in {"null", "elist"} => p \notin DOMAIN g.item]_vars

-----------------------------------------------------------------------------
(* Sessions: close, and opening the container again *)

SessionItems == {Rec("foo") @@ (<<"name">> :> T("a"))}

SessionPartials == {<<"name">> :> T("b")}

\* the calls made on a closed handle that need the database connection
ClosedOps == {"insert", "get", "update", "select", "all", "validate", "close"}

\* close()
Close ==
    /\ handle.open
    /\ handle' = [handle EXCEPT !.open = FALSE, !.scratch = CloseScratch(handle)]
    /\ disk' = CloseHandle(handle, disk, db, options)
    /\ last' = Last("close", TRUE, "", NoItem, <<>>, <<>>)
    /\ UNCHANGED <<hashseed, pending, metadata, db, tables, options, schemas, files, writers, handed>>

\* a call on a closed handle: the connection raises ProgrammingError
ClosedCall ==
    \E op \in ClosedOps :
        /\ ~handle.open
        /\ last' = Last(op, FALSE, "ProgrammingError", NoItem, <<>>, <<>>)
        /\ UNCHANGED <<hashseed, pending, metadata, handle, disk, db, tables, options, schemas, files, writers, handed>>

\* with load_file(file_path) as the_file
LoadFile ==
    \E file_path \in DOMAIN files \cup {Bar} :
        /\ last' = Last("load", file_path \in DOMAIN files,
                        IF file_path \in DOMAIN files THEN "" ELSE "ResourceNotFound",
                        NoItem, <<>>, file_path)
        /\ UNCHANGED <<hashseed, pending, metadata, handle, disk, db, tables, options, schemas, files, writers, handed>>

\* jsonlite.connect(url, read_only) on the container, once the handle before
\* it is closed
Connect ==
    \E read_only \in BOOLEAN, local \in BOOLEAN :
        LET o == OpenHandle(disk, read_only, local)
        IN  /\ ~handle.open
            /\ handle' = IF o.ok THEN o.handle ELSE handle
            /\ disk' = o.disk
            /\ db' = IF o.ok THEN o.db ELSE db
            /\ tables' = IF o.ok THEN o.db.cols ELSE tables
            /\ options' = IF o.ok THEN o.options ELSE options
            /\ last' = Last("connect", o.ok, IF o.ok THEN "" ELSE "ResourceNotFound",
                            NoItem, <<>>, <<>>)
            /\ UNCHANGED <<hashseed, pending, metadata, schemas, files, writers, handed>>

NextSession ==
    \/ Insert(SessionItems)
    \/ Update(SessionPartials)
    \/ OpenStore({Bar})
    \/ LoadFile
    \/ Close
    \/ ClosedCall
    \/ Connect

InitSession == \E local \in BOOLEAN : Construct(local)

SpecSession == InitSession /\ [][NextSession]_vars

\* C17: once close has returned, every later call on the handle fails and
\* changes neither the index nor the payload files.
C17_ClosedIsTerminal ==
    [][(~handle.open /\ last'.op # "connect") =>
        /\ ~last'.ok
        /\ ~handle'.open
        /\ db' = db /\ disk' = disk /\ files' = files]_vars

\* C18: closing a read-write handle leaves the index file under the root with
\* the records of the handle; the file stays until the container is opened
\* again; opening it read-write, on a local or a non-local backend, reports new
\* exactly when there was no index file and works on the records of the file.
C18_ReopenSeesSavedRecords ==
    [][/\ (last'.op = "close" /\ last'.ok /\ ~handle.read_only) =>
            disk' = Saved(db, options)
       /\ (~handle.open /\ last'.op # "connect") => disk' = disk
       /\ (last'.op = "connect" /\ last'.ok /\ ~handle'.read_only) =>
            /\ handle'.new = ~disk.exists
            /\ disk.exists => (db' = disk.db /\ tables' = disk.db.cols
                                /\ options'.value = disk.options)]_vars

\* C18 witness: a container with records was opened again read-write on a
\* non-local backend
C18_Witness ==
    /\ last.op = "connect" /\ last.ok
    /\ ~handle.read_only /\ ~handle.local /\ ~handle.new
    /\ AllRows # {}

\* C19: no step of a read-only handle, its close included, changes the index
\* file under the root, and the handle opened next works on that file.
C19_ReadOnlyLeavesIndexFile ==
    [][/\ handle.read_only => disk' = disk
       /\ (handle.read_only /\ last'.op = "connect" /\ last'.ok) => db' = disk.db]_vars

\* C19 witness: a read-only handle whose records differ from those of the
\* index file was closed
C19_Witness ==
    /\ last.op = "close" /\ handle.read_only
    /\ db.rows # disk.db.rows

-----------------------------------------------------------------------------
(* Import of another container *)

MaxImports == 2

SrcUid(type, tok) == type \o <<"--", tok>>

\* the source containers: the records inserted into each, in order, and its
\* payload files
Sources ==
    (<<"s1">> :> [items |-> << (<<"type">> :> T("foo"))
                                @@ (UID :> Txt(SrcUid(<<"foo">>, "s1")))
                                @@ (<<"foo_path">> :> Txt(Bar)) >>,
                  files |-> (Bar :> <<"B">>)])
    @@ (<<"s2">> :> [items |-> << (<<"type">> :> Txt(<<"_", "t">>))
                                   @@ (UID :> Txt(SrcUid(<<"_", "t">>, "s2")))
                                   @@ (<<"name">> :> T("a")) >>,
                     files |-> <<>>])
    @@ (<<"s3">> :> [items |-> << (<<"type">> :> T("foo"))
                                   @@ (UID :> Txt(SrcUid(<<"foo">>, "s3")))
                                   @@ (<<"name">> :> T("a")),
                                  (<<"type">> :> T("foo"))
                                   @@ (UID :> Txt(SrcUid(<<"foo">>, "s4")))
                                   @@ (<<"foo_path">> :> Txt(Bar)) >>,
                     files |-> (Bar :> <<"C">>)])

\* the index of a source container
RECURSIVE SourceDb(_)
SourceDb(items) ==
    IF items = <<>> THEN EmptyDb
    ELSE LET d == SourceDb(SubSeq(items, 1, Len(items) - 1))
         IN  InsertItem(St(d, d.cols), TRUE, items[Len(items)], <<>>).st.db

\* import_db.all(), in the order of the rows
AllSeq(items) ==
    LET d == SourceDb(items)
        RECURSIVE Yield(_)
        Yield(n) ==
            IF n > Len(items) THEN <<>>
            ELSE LET item == Get(d, items[n][UID].s).item
                 IN  (IF item \in All(d) THEN <<item>> ELSE <<>>) \o Yield(n + 1)
    IN  Yield(1)

\* every record the source holds
SourceRecords(items) ==
    LET d == SourceDb(items)
    IN  UNION {{RowToItem(r) : r \in d.rows[t]} : t \in DOMAIN d.rows}

\* the loop of _import_file: each payload named by a field ending in "_path" is
\* stored under a free name and the field is set to that name
RECURSIVE ImportFields(_, _, _, _)
ImportFields(fs, file_system, item, fields) ==
    IF fields = {} THEN [ok |-> TRUE, fs |-> fs, item |-> item]
    ELSE LET field == CHOOSE f \in fields : TRUE
             r == StoreFile(fs, item[<<field>>].s)
         IN  IF item[<<field>>].s \notin DOMAIN file_system
             THEN [ok |-> FALSE, fs |-> r.fs, item |-> item]
             ELSE ImportFields(
                    HashedFileWrite(r.fs, r.file, file_system[item[<<field>>].s]).fs,
                    file_system,
                    [item EXCEPT ![<<field>>] = Txt(r.file.path)],
                    fields \ {field})

\* _import_file(file_system, item)
ImportFile(st, fs, strict, file_system, item) ==
    LET c == ImportFields(fs, file_system, item, TopKeys(item) \cap PathFields)
        r == InsertItem(st, strict, c.item, Uuid4(st.db))
    IN  IF ~c.ok THEN [ok |-> FALSE, err |-> "ResourceNotFound", st |-> st, fs |-> c.fs]
        ELSE [ok |-> r.ok, err |-> r.err, st |-> r.st, fs |-> c.fs]

\* import_jsonlite(url): the records of the source in turn, up to the first
\* that raises
RECURSIVE ImportJsonlite(_, _, _, _, _)
ImportJsonlite(st, fs, strict, file_system, items) ==
    IF items = <<>> THEN [ok |-> TRUE, err |-> "", st |-> st, fs |-> fs]
    ELSE LET r == ImportFile(st, fs, strict, file_system, Head(items))
         IN  IF r.ok THEN ImportJsonlite(r.st, r.fs, strict, file_system, Tail(items))
             ELSE r

ImportItems == {Rec("foo") @@ (<<"name">> :> T("a"))}

\* store.import_jsonlite(url)
Import ==
    \E url \in DOMAIN Sources :
        /\ handle.open
        /\ NRows(db) < MaxImports
        /\ Cardinality(DOMAIN files) < MaxFiles
        /\ \E r \in {ImportJsonlite(St(db, tables), files, options.strict,
                                  Sources[url].files, AllSeq(Sources[url].items))} :
              /\ db' = r.st.db
              /\ tables' = r.st.tables
              /\ files' = r.fs
              /\ handed' = handed \cup (DOMAIN r.fs \ DOMAIN files)
              /\ last' = Last("import", r.ok, r.err, NoItem, url, <<>>)
        /\ UNCHANGED <<hashseed, pending, metadata, handle, disk, options, schemas, writers>>

NextImport ==
    \/ Insert(ImportItems)
    \/ OpenStore({Bar})
    \/ Write
    \/ CloseStore
    \/ Import

SpecImport == Init /\ [][NextImport]_vars

\* the rows of a table of the index, none when there is no such table
RowsOf(d, t) == IF t \in DOMAIN d.rows THEN d.rows[t] ELSE {}

\* C20: an import that returned has added every record of the source, each
\* path field naming a file that was free before and now holds the source
\* payload's bytes, and has left the files and records that were there alone.
C20_ImportAddsEveryRecord ==
    [][(last'.op = "import" /\ last'.ok) =>
        /\ \A item \in SourceRecords(Sources[last'.id].items) :
              \E t \in DOMAIN db'.rows : \E r \in db'.rows[t] \ RowsOf(db, t) :
                  LET got == RowToItem(r)
                      paths == {p \in DOMAIN item : Len(p) = 1 /\ p[1] \in PathFields}
                  IN  /\ DOMAIN got = DOMAIN item
                      /\ \A p \in DOMAIN item \ paths : got[p] = item[p]
                      /\ \A p \in paths :
                            /\ got[p].s \notin DOMAIN files
                            /\ got[p].s \in DOMAIN files'
                            /\ files'[got[p].s] = Sources[last'.id].files[item[p].s]
        /\ \A p \in DOMAIN files : p \in DOMAIN files' /\ files'[p] = files[p]
        /\ \A t \in DOMAIN db.rows : db.rows[t] \subseteq RowsOf(db', t)]_vars

-----------------------------------------------------------------------------
(* Interchange envelopes *)

\* the envelopes handed to import_stix: the objects, in order, and the payload
\* files beside the envelope
Envelopes ==
    (<<"e1">> :> [objects |-> << Rec("foo") @@ (<<"name">> :> T("a")),
                                 Rec("file") @@ (<<"name">> :> T("a")) >>,
                  files |-> <<>>])
    @@ (<<"e2">> :> [objects |-> << Rec("foo") @@ (<<"name">> :> T("7")),
                                    Rec("foo") @@ (<<"name">> :> Num(7)) >>,
                     files |-> <<>>])
    @@ (<<"e3">> :> [objects |-> << Rec("foo") @@ (<<"foo_path">> :> Txt(Bar)) >>,
                     files |-> (Bar :> <<"B">>)])
    @@ (<<"e4">> :> [objects |-> << Rec("file") @@ (<<"name">> :> Num(7)) >>,
                     files |-> <<>>])
    @@ (<<"e5">> :> [objects |-> << Rec("foo") @@ (<<"foo_path">> :> Txt(Bar)),
                                    Rec("foo") @@ (<<"name">> :> T("a"))
                                               @@ (<<"foo_path">> :> Txt(Bar)) >>,
                     files |-> (Bar :> <<"B">>)])

\* export_stix: the envelope written, its objects being the records of all()
ExportStix(meta, d) == [id |-> meta.id, objects |-> All(d)]

\* store.import_stix(url)
ImportStix ==
    \E url \in DOMAIN Envelopes :
        /\ handle.open
        /\ NRows(db) < MaxImports
        /\ Cardinality(DOMAIN files) < MaxFiles
        /\ metadata' = [id |-> url, objects |-> Envelopes[url].objects]
        /\ \E r \in {ImportJsonlite(St(db, tables), files, options.strict,
                                  Envelopes[url].files, Envelopes[url].objects)} :
              /\ db' = r.st.db
              /\ tables' = r.st.tables
              /\ files' = r.fs
              /\ handed' = handed \cup (DOMAIN r.fs \ DOMAIN files)
              /\ last' = Last("import_stix", r.ok, r.err, NoItem, url, <<>>)
        /\ UNCHANGED <<hashseed, pending, handle, disk, options, schemas, writers>>

\* store.export_stix(url)
DoExportStix ==
    /\ handle.open
    /\ last' = [Last("export_stix", TRUE, "", NoItem, metadata.id, <<>>)
                    EXCEPT !.items = ExportStix(metadata, db).objects]
    /\ UNCHANGED <<hashseed, pending, metadata, handle, disk, db, tables, options, schemas, files, writers, handed>>

NextInterchange ==
    \/ Insert(ImportItems)
    \/ ImportStix
    \/ DoExportStix
    \/ SetStrict

\* forensicstore.connect(url) on a new container: the schemas are registered
InitInterchange == Init /\ schemas = {<<"file">>}

SpecInterchange == InitInterchange /\ [][NextInterchange]_vars

\* an object of an exported envelope without its uid
StripUid(item) == Restrict(item, DOMAIN item \ {UID})

\* the exported objects, uid removed, are the imported ones: none lost, none
\* duplicated, none altered
SameObjects(imported, exported) ==
    /\ Cardinality(exported) = Len(imported)
    /\ \E f \in [1..Len(imported) -> exported] :
          /\ \A m, n \in 1..Len(imported) : f[m] = f[n] => m = n
          /\ \A n \in 1..Len(imported) : StripUid(f[n]) = imported[n]

\* C21: after import_stix of an envelope into a freshly created container has
\* returned, export_stix writes objects that, uid removed, are the objects of
\* the imported envelope as an unordered collection.
C21_InterchangeRoundTrip ==
    [][(last'.op = "import_stix" /\ last'.ok
            /\ handle.new /\ NRows(db) = 0 /\ files = <<>>) =>
        SameObjects(Envelopes[last'.id].objects, ExportStix(metadata', db').objects)]_vars

-----------------------------------------------------------------------------
(* Scopes of the payload writers that end with an error *)

ScopeItems == {Rec("file") @@ (<<"name">> :> T("a"))}

\* the body of "with store_file(...)" raises: the generator is resumed with the
\* error at its yield, the_file.close() after the yield is not reached
StoreRaise ==
    \E path \in DOMAIN writers :
        /\ ~writers[path].export /\ writers[path].field = "" /\ writers[path].scope
        /\ writers' = [writers EXCEPT ![path].scope = FALSE]
        /\ last' = Last("store_raise", FALSE, "Error", NoItem, <<>>, path)
        /\ UNCHANGED <<hashseed, pending, metadata, handle, disk, db, tables, options, schemas, files, handed>>

\* the body of "with add_file_item_export(...)" raises: the error passes through
\* _add_file_field and store_file at their yields; neither the close nor the
\* update is reached
ExportRaise ==
    \E path \in DOMAIN writers :
        /\ writers[path].export /\ writers[path].scope
        /\ writers' = [writers EXCEPT ![path].scope = FALSE]
        /\ last' = Last("export_raise", FALSE, "Error", NoItem, <<>>, path)
        /\ UNCHANGED <<hashseed, pending, metadata, handle, disk, db, tables, options, schemas, files, handed>>

NextScope ==
    \/ Insert(ScopeItems)
    \/ OpenStore({Bar})
    \/ Write
    \/ CloseStore
    \/ StoreRaise
    \/ AddFileItemExport
    \/ ExportExit
    \/ ExportRaise

SpecScope == Init /\ [][NextScope]_vars

\* C27: when the scope of a payload writer ends, normally or with an error, the
\* writer, open until then, is closed.
C27_WriterClosedAtScopeEnd ==
    [][last'.op \in {"close_file", "store_raise", "export_exit", "export_raise"} =>
        /\ last'.ret \in DOMAIN writers
        /\ last'.ret \notin DOMAIN writers']_vars

\* C28: when the scope of a record's payload writer ends with an error, either
\* a record references the written file or the file is not under the root.
C28_FailedScopeLeavesNoOrphan ==
    [][last'.op = "export_raise" =>
        \/ last'.ret \notin DOMAIN files'
        \/ \E x \in AllRows' :
              \E f \in TopKeys(RowToItem(x[2])) \cap PathFields :
                  RowToItem(x[2])[<<f>>] = Txt(last'.ret)]_vars

-----------------------------------------------------------------------------
(* The output streams of a process record *)

ProcessItems ==
    { Rec("process") @@ (<<"artifact">> :> T("r")) @@ (<<"name">> :> T("a")) }

\* the export names and the fields of add_process_item_stdout and _stderr
Streams == {"stdout", "stderr"}

StreamField(stream) == IF stream = "stdout" THEN "stdout_path" ELSE "stderr_path"

\* a stitch that writes the path into both stream fields
StreamFieldUpdateBoth(w) ==
    [p \in {<<StreamField(stream)>> : stream \in Streams} |-> Txt(w.path)]

\* _add_file_field after the yield, without size and hashes: the partial record
\* {field: new_path}
StreamFieldUpdate(w) == <<w.field>> :> Txt(w.path)

\* with add_process_item_stdout(item_id) as the_file (or _stderr): entering
AddProcessItemStream ==
    \E item_id \in StoredUids(db), stream \in Streams :
        LET g == Get(db, item_id)
            r == StoreFile(files, JoinArtifact(g.item, <<stream>>))
            err == IF ~g.ok THEN "KeyError"
                   ELSE IF g.item[DISCRIMINATOR] # T("process") THEN "TypeError"
                   ELSE IF ~r.ok THEN "FileExists"
                   ELSE ""
        IN  /\ handle.open
            /\ Cardinality(DOMAIN files) < MaxExports
            /\ files' = IF err = "" THEN r.fs ELSE files
            /\ writers' = IF err = ""
                          THEN (r.file.path :> (r.file @@ [item_id |-> item_id, export |-> FALSE,
                                                           field |-> StreamField(stream),
                                                           scope |-> TRUE]))
                               @@ writers
                          ELSE writers
            /\ handed' = IF err = "" THEN handed \cup {r.file.path} ELSE handed
            /\ last' = Last("stream", err = "", err, NoItem, item_id,
                            IF err = "" THEN r.file.path ELSE <<>>)
            /\ UNCHANGED <<hashseed, pending, metadata, handle, disk, db, tables, options, schemas>>

\* leaving the scope of a stream writer normally: the file is closed and the
\* path is stitched into the record
ProcessExit ==
    \E path \in DOMAIN writers :
        LET w == writers[path]
        IN  /\ w.field \in {StreamField(stream) : stream \in Streams} /\ w.scope
            /\ \E r \in {UpdateItem(St(db, tables), options.strict, w.item_id,
                                    StreamFieldUpdate(w), <<>>)} :
                  /\ db' = r.st.db
                  /\ tables' = r.st.tables
                  /\ last' = Last("process_exit", r.ok, r.err, NoItem, w.item_id, path)
            /\ writers' = Restrict(writers, DOMAIN writers \ {path})
            /\ UNCHANGED <<hashseed, pending, metadata, handle, disk, options, schemas, files, handed>>

NextProcess ==
    \/ Insert(ProcessItems)
    \/ AddProcessItemStream
    \/ ProcessExit

SpecProcess == Init /\ [][NextProcess]_vars

\* C29: when the scope of a stream writer of a process record exits, whatever
\* other writers of the record are open or have exited, the record gets the
\* path of that writer's file in that writer's field, and its other stream
\* field is as it was: kept if it was set, absent if it was not.
C29_StreamStitchesOwnField ==
    [][(last'.op = "process_exit" /\ last'.ok) =>
        LET w == writers[last'.ret]
            old == Get(db, last'.id).item
            new == Get(db', last'.id).item
        IN  /\ new[<<w.field>>] = Txt(w.path)
            /\ w.path \in DOMAIN files'
            /\ \A stream \in Streams :
                  StreamField(stream) # w.field =>
                    IF StreamField(stream) \in TopKeys(old)
                    THEN /\ StreamField(stream) \in TopKeys(new)
                         /\ new[<<StreamField(stream)>>] = old[<<StreamField(stream)>>]
                    ELSE StreamField(stream) \notin TopKeys(new)]_vars

\* C29 witness: both stream writers of one record have exited and the record
\* carries two different paths
C29_Witness ==
    /\ last.op = "process_exit" /\ last.ok
    /\ writers = <<>>
    /\ LET item == Get(db, last.id).item
       IN  /\ {"stdout_path", "stderr_path"} \subseteq TopKeys(item)
           /\ item[<<"stdout_path">>] # item[<<"stderr_path">>]

-----------------------------------------------------------------------------
(* The sequences of select and all: generators *)

LazyItems == {Rec("foo") @@ (<<"name">> :> T("a"))}

LazyPartials == {<<"name">> :> T("b")}

\* seq = select(item_type, conditions): a generator function returns its
\* generator without running any of its body
CallSelect ==
    \E item_type \in {<<"foo">>}, conditions \in {{}, {<<"name">> :> T("a")}} :
        /\ handle.open
        /\ pending' = [op |-> "select", item_type |-> item_type, conds |-> conditions,
                       called |-> db]
        /\ last' = Last("select_call", TRUE, "", NoItem, item_type, <<>>)
        /\ UNCHANGED <<hashseed, metadata, handle, disk, db, tables, options, schemas, files, writers, handed>>

\* seq = all()
CallAll ==
    /\ handle.open
    /\ pending' = [op |-> "all", item_type |-> <<>>, conds |-> {}, called |-> db]
    /\ last' = Last("all_call", TRUE, "", NoItem, <<>>, <<>>)
    /\ UNCHANGED <<hashseed, metadata, handle, disk, db, tables, options, schemas, files, writers, handed>>

\* list(seq): the body of the generator runs now, the query with it
Consume ==
    /\ pending.op # ""
    /\ last' = [Last("consume", TRUE, "", NoItem, pending.item_type, <<>>)
                    EXCEPT !.conds = pending.conds,
                           !.items = IF pending.op = "select"
                                     THEN Select(db, pending.item_type, pending.conds)
                                     ELSE All(db)]
    /\ pending' = NoPending
    /\ UNCHANGED <<hashseed, metadata, handle, disk, db, tables, options, schemas, files, writers, handed>>

NextLazy ==
    \/ Insert(LazyItems)
    \/ Update(LazyPartials)
    \/ CallSelect
    \/ CallAll
    \/ Consume

SpecLazy == Init /\ [][NextLazy]_vars

\* C30: the sequence a select or all call returned yields, when it is consumed,
\* the records the container held when the call was made.
C30_SequenceIsSnapshotOfCall ==
    [][last'.op = "consume" =>
        last'.items = IF pending.op = "select"
                      THEN Select(pending.called, pending.item_type, pending.conds)
                      ELSE All(pending.called)]_vars


-----------------------------------------------------------------------------
(* A handle that is dropped without close *)

\* the handle goes out of scope without close(): sqlite3 closes the connection
\* without a commit, so the index file keeps what the last commit wrote; the
\* only commits are those of close and export_jsonlite
Drop ==
    /\ handle.open
    /\ handle' = [handle EXCEPT !.open = FALSE]
    /\ disk' = disk
    /\ last' = Last("drop", TRUE, "", NoItem, <<>>, <<>>)
    /\ UNCHANGED <<hashseed, pending, metadata, db, tables, options, schemas, files, writers, handed>>

NextDrop ==
    \/ Insert(SessionItems)
    \/ Update(SessionPartials)
    \/ SetStrict
    \/ Drop
    \/ Close

SpecDrop == InitSession /\ [][NextDrop]_vars

\* C31: every record whose insert has returned is in the index file when the
\* handle is then dropped without close.
C31_InsertCommitsBeforeReturn ==
    (last.op = "drop" /\ ~handle.read_only) =>
        StoredUids(db) \subseteq StoredUids(disk.db)


-----------------------------------------------------------------------------
(* The tables and columns of the record types *)

ColumnItems ==
    { Rec("foo") @@ (<<"a", "b">> :> EList),
      Rec("foo") @@ (<<"a", "b">> :> Num(7)),
      Rec("foo") @@ (<<"n">> :> Num(7)),
      Rec("foo") @@ (<<"n">> :> T("a")),
      Rec("bar") @@ (<<"n">> :> T("a")) }

\* a partial record with an empty list below the top level
ColumnPartials == {<<"a", "b">> :> EList}

NextColumns == Insert(ColumnItems) \/ Update(ColumnPartials) \/ SetStrict

SpecColumns == Init /\ [][NextColumns]_vars

\* the table has no value in the column yet
Unwritten(d, t, c) == t \in DOMAIN d.rows => \A r \in d.rows[t] : c \notin DOMAIN r

\* C32: a table once created is never dropped, its columns only grow and keep
\* their declared type; a column is INTEGER if the first value written to it is
\* integral and TEXT otherwise; uid is TEXT PRIMARY KEY and the discriminator
\* TEXT in the table of every type.
C32_ColumnsGrowAndKeepType ==
    [][/\ \A t \in DOMAIN db.cols :
            /\ t \in DOMAIN db'.cols
            /\ \A c \in DOMAIN db.cols[t] :
                    c \in DOMAIN db'.cols[t] /\ db'.cols[t][c] = db.cols[t][c]
       /\ (last'.op = "insert" /\ last'.ok) =>
            LET t == last'.item[DISCRIMINATOR].s
            IN  /\ PrimaryKey(t) = UID
                /\ db'.cols[t][UID] = "TEXT" /\ db'.cols[t][DISCRIMINATOR] = "TEXT"
                /\ \A p \in DOMAIN last'.item :
                        (last'.item[p].k \in {"int", "text"} /\ Unwritten(db, t, FlatKey(p))) =>
                            db'.cols[t][FlatKey(p)] =
                                IF last'.item[p].k = "int" THEN "INTEGER" ELSE "TEXT"]_vars


-----------------------------------------------------------------------------
(* Errors of validate and validate_item *)

CheckItems ==
    { Rec("foo") @@ (<<"foo_path">> :> Txt(Bar)),
      Rec("foo") @@ (<<"foo_path">> :> Num(7)),
      <<"foo_path">> :> Txt(Bar) }

\* validate_item(item)
DoValidateItem ==
    \E item \in CheckItems :
        \E r \in {ValidateItem(files, item)} :
            /\ last' = [Last("validate_item", r.ok, r.err, item, <<>>, <<>>)
                            EXCEPT !.errors = r.errors]
            /\ UNCHANGED <<hashseed, pending, metadata, handle, disk, db, tables, options, schemas, files, writers, handed>>

NextCheck ==
    \/ Insert(CheckItems)
    \/ OpenStore({Bar})
    \/ CloseStore
    \/ DoValidate
    \/ DoValidateItem

SpecCheck == Init /\ [][NextCheck]_vars

\* C33: validate and validate_item return their list of errors, whatever the
\* records are, and never raise; for a record without the discriminator the
\* list of validate_item has an entry that says so.
C33_ValidateNeverRaises ==
    last.op \in {"validate", "validate_item"} =>
        /\ last.ok
        /\ (last.op = "validate_item" /\ "type" \notin TopKeys(last.item)) =>
                \E e \in last.errors : e[1] = "no discriminator"


-----------------------------------------------------------------------------
(* The scratch directory of a handle *)

\* C34: after close, the directory that open made for the working copy of the
\* index (non-local backend, or read-only open) is not there any more.
C34_CloseRemovesScratch ==
    (last.op = "close" /\ last.ok) => ~handle.scratch


-----------------------------------------------------------------------------
(* Insert of a uid that is stored *)

DuplicateItems ==
    { Rec("foo") @@ (UID :> Txt(FooUid)) @@ (<<"name">> :> T("a")),
      Rec("foo") @@ (UID :> Txt(FooUid)) @@ (<<"name">> :> T("b")) @@ (<<"size">> :> Num(7)),
      Rec("foo") @@ (<<"name">> :> T("a")) }

NextDuplicate == Insert(DuplicateItems) \/ Update(SessionPartials) \/ SetStrict

SpecDuplicate == Init /\ [][NextDuplicate]_vars

\* C35: insert of a record whose uid is the uid of a stored record of the same
\* type fails and leaves the index as it was: no row is added or changed, and
\* no column is added.
C35_DuplicateUidUnchanged ==
    \A item \in DuplicateItems :
        ("uid" \in TopKeys(item) /\ Get(db, item[UID].s).ok) =>
            LET r == InsertItem(St(db, tables), options.strict, item, Uuid4(db))
            IN  ~r.ok /\ r.st.db = db


-----------------------------------------------------------------------------
(* The options table and the schemas table *)

OptionItems ==
    { (<<"type">> :> Txt(OptionsTable)) @@ (<<"name">> :> T("a")),
      (<<"type">> :> Txt(SchemasTable)) @@ (<<"name">> :> T("a")),
      Rec("foo") @@ (<<"name">> :> T("a")) }

OptionPartials == {<<"value">> :> T("b"), <<"name">> :> T("b")}

NextOptions == Insert(OptionItems) \/ Update(OptionPartials) \/ SetStrict

SpecOptions == Init /\ [][NextOptions]_vars

\* C36: whatever insert and update are called with, the options table and the
\* schemas table keep the columns they were created with and get no row.
C36_OptionTablesUntouched ==
    \A t \in {OptionsTable, SchemasTable} :
        /\ db.cols[t] = EmptyDb.cols[t]
        /\ db.rows[t] = {}


-----------------------------------------------------------------------------
(* The strict flag over close and reopen *)

StrictItems ==
    { Rec("file") @@ (<<"name">> :> T("a")),
      Rec("file") @@ (<<"bad">> :> T("a")) }

NextStrict == Insert(StrictItems) \/ SetStrict \/ Close \/ Connect

SpecStrict == InitSession /\ [][NextStrict]_vars

\* C37: when a read-write handle on which set_strict(b) was called is closed
\* and the container opened again, strict() of the new handle has the truth
\* value of b, and insert of a record that fails its schema is refused exactly
\* when b is true.
C37_StrictPersists ==
    [][(/\ last'.op = "connect" /\ last'.ok
        /\ ~handle.open /\ ~handle.read_only
        /\ options.value = StoredOption(options.strict)) =>
            /\ options'.strict <=> options.strict
            /\ \A item \in StrictItems :
                    ValidateItemSchema(item) # <<>> =>
                        (InsertItem(St(db', tables'), options'.strict, item, Uuid4(db')).ok
                            <=> ~options.strict)]_vars


-----------------------------------------------------------------------------
(* export_jsonlite *)

\* a database file sqlite3.connect has just created: no table
BlankDb == [cols |-> <<>>, rows |-> <<>>]

\* export_jsonlite(url): commit, close the connection, copy the directory of
\* the working index to the container at url, then connect to the relative
\* path "item.db": the file the handle worked on only when the working
\* directory of the process is the directory of that file (same), else a file
\* sqlite3 creates there. The catalog and the option cache are not read again.
ExportJsonlite ==
    \E same \in BOOLEAN :
        /\ handle.open
        /\ LET written == IF handle.attached THEN Saved(db, options) ELSE handle.committed
           IN  /\ handle' = [handle EXCEPT !.attached = @ /\ same, !.committed = written]
               /\ disk' = IF handle.attached /\ handle.local /\ ~handle.read_only
                          THEN written ELSE disk
        /\ db' = IF same THEN db ELSE BlankDb
        /\ last' = Last("export_jsonlite", TRUE, "", NoItem, <<>>, <<>>)
        /\ UNCHANGED <<hashseed, pending, metadata, tables, options, schemas, files, writers, handed>>

NextExport ==
    \/ Insert(SessionItems)
    \/ Update(SessionPartials)
    \/ ExportJsonlite
    \/ Close

SpecExport == InitSession /\ [][NextExport]_vars

\* C38: after export_jsonlite the handle works on the index it worked on
\* before: get, select and all return the records they returned before the
\* export, and later inserts go to that index.
C38_ExportKeepsHandle ==
    [][(last'.op = "export_jsonlite" /\ last'.ok) =>
        /\ All(db') = All(db)
        /\ \A id \in StoredUids(db) : Get(db', id) = Get(db, id)
        /\ \A t \in DOMAIN db.cols : Select(db', t, {}) = Select(db, t, {})
        /\ handle'.attached = handle.attached]_vars


-----------------------------------------------------------------------------
(* A read-only handle and the files under the root *)

\* C39: no call on a handle opened read-only creates or changes a file under
\* the container root: neither the index file nor a payload file.
C39_ReadOnlyWritesNoFile ==
    [][(handle.read_only /\ last'.op # "connect") =>
        (files' = files /\ disk' = disk)]_vars


-----------------------------------------------------------------------------
(* The catalog and the index *)

CatalogItems ==
    { Rec("bar") @@ (<<"a">> :> Num(1)),
      Rec("bar") @@ (<<"a">> :> Num(1)) @@ (<<"A">> :> Num(1)),
      Rec("bar") @@ (<<"a">> :> Num(1)) @@ (<<"A">> :> Num(1)) @@ (<<"x">> :> T("t")) }

CatalogPartials == {<<"A">> :> Num(1)}

NextCatalog == Insert(CatalogItems) \/ Update(CatalogPartials) \/ SetStrict

InitCatalog == Constructed(TRUE) /\ hashseed \in BOOLEAN

SpecCatalog == InitCatalog /\ [][NextCatalog]_vars

\* C40: after every insert and update, returned or raised, the catalog lists
\* the tables and columns of the index, and a record that insert accepts with
\* the catalog read from the index is accepted with the catalog as it is.
C40_CatalogMatchesIndex ==
    last.op \in {"insert", "update"} =>
        /\ tables = db.cols
        /\ \A item \in CatalogItems :
                InsertItem(St(db, db.cols), options.strict, item, Uuid4(db)).ok =>
                    InsertItem(St(db, tables), options.strict, item, Uuid4(db)).ok

====
